---- MODULE Spec2Model ----
(***************************************************************************)
(* A model of marker's list and cross-page table processors:               *)
(*   src/marker/processors/list.py                (ListProcessor)          *)
(*   src/marker/processors/llm/llm_cross_page_table.py                     *)
(*                                        (LLMCrossPageTableProcessor)     *)
(* Coordinates are integers.  Text is a sequence of one-character strings, *)
(* a cell's text_lines a sequence of texts.                                *)
(***************************************************************************)
EXTENDS Integers, Sequences, FiniteSets, TLC

VARIABLES
    doc_blocks,   \* list_group_continuation: the document's blocks, in document order
    doc_pages,    \* list_group_continuation: page_id -> the page's polygon (width, height)
    cont_pc,      \* list_group_continuation: "ready" before the pass, "done" after it
    doc_init,     \* doc_blocks before the pass (history)
    page_blocks,  \* list_group_indentation: block id -> the page's ListItem (or other) block
    groups,       \* list_group_indentation: the top-level blocks, in document order
    ind_i,        \* list_group_indentation: index in groups of the next block of the loop
    ind_raised,   \* list_group_indentation: an exception left the pass
    init_blocks,  \* page_blocks before the pass (history)
    init_groups,  \* groups before the pass (history)
    pair_prev,    \* find_cross_page_table_pairs: prev_table (NoTable for None)
    pair_pairs,   \* find_cross_page_table_pairs: pairs, as pairs of table ids
    pair_n,       \* find_cross_page_table_pairs: number of tables scanned
    pair_before,  \* prev_table at the start of the last iteration (history)
    corr_cells,   \* apply_corrections: <<cells1, cells2>>
    corr_batch,   \* apply_corrections: corrections
    corr_i,       \* apply_corrections: index in corrections of the next correction
    corr_hist,    \* corr_cells before each applied correction, then now (history)
    corr_data,    \* process_table_pair: corrections_data, as the oracle gave it
    rw_tables,    \* rewrite_blocks: table id -> the table's cells
    rw_pairs,     \* rewrite_blocks: table_pairs, as pairs of table ids
    rw_i,         \* rewrite_blocks: index in table_pairs of the next pair
    rw_raised,    \* rewrite_blocks: an exception left the call
    rw_last,      \* what the environment gave the last pair processed (history)
    rw_before,    \* rw_tables before the last pair processed (history)
    find_cells,   \* find_cell_at_location: cells
    find_row,     \* find_cell_at_location: row
    find_col,     \* find_cell_at_location: col
    find_result,  \* find_cell_at_location: what the call gave
    find_pc       \* find_cell_at_location: "ready" before the call, "done" after it

contVars == <<doc_blocks, doc_pages, cont_pc, doc_init>>

indVars == <<page_blocks, groups, ind_i, ind_raised, init_blocks, init_groups>>

pairVars == <<pair_prev, pair_pairs, pair_n, pair_before>>

corrVars == <<corr_cells, corr_batch, corr_i, corr_hist, corr_data>>

findVars == <<find_cells, find_row, find_col, find_result, find_pc>>

rwVars == <<rw_tables, rw_pairs, rw_i, rw_raised, rw_last, rw_before>>

vars == <<doc_blocks, doc_pages, cont_pc, doc_init,
          page_blocks, groups, ind_i, ind_raised, init_blocks, init_groups,
          pair_prev, pair_pairs, pair_n, pair_before,
          corr_cells, corr_batch, corr_i, corr_hist, corr_data,
          rw_tables, rw_pairs, rw_i, rw_raised, rw_last, rw_before,
          find_cells, find_row, find_col, find_result, find_pc>>

\* The variables of the passes a specification does not run.
ContIdle ==
    /\ doc_blocks = <<>>
    /\ doc_pages = <<>>
    /\ cont_pc = "idle"
    /\ doc_init = <<>>

IndIdle ==
    /\ page_blocks = <<>>
    /\ groups = <<>>
    /\ ind_i = 0
    /\ ind_raised = FALSE
    /\ init_blocks = <<>>
    /\ init_groups = <<>>

\* None where the code holds a table.
NoTable == [id |-> 0, page_id |-> 0, cells |-> <<>>]

\* What find_cell_at_location gives: the index in cells of the cell found
\* (0 for None), or an exception.
NoCell == [cell |-> 0, raised |-> FALSE]

PairIdle ==
    /\ pair_prev = NoTable
    /\ pair_pairs = <<>>
    /\ pair_n = 0
    /\ pair_before = NoTable

CorrIdle ==
    /\ corr_cells = <<>>
    /\ corr_batch = <<>>
    /\ corr_i = 0
    /\ corr_hist = <<>>
    /\ corr_data = <<>>

FindIdle ==
    /\ find_cells = <<>>
    /\ find_row = 0
    /\ find_col = 0
    /\ find_result = NoCell
    /\ find_pc = "idle"

RwIdle ==
    /\ rw_tables = <<>>
    /\ rw_pairs = <<>>
    /\ rw_i = 0
    /\ rw_raised = FALSE
    /\ rw_last = <<>>
    /\ rw_before = <<>>

(***************************************************************************)
(* Bounds of the model.                                                    *)
(***************************************************************************)
MaxCoord == 3

Coords == 0 .. MaxCoord

\* Page widths and heights: an even and an odd one.
PageDims == {4, 5}

(***************************************************************************)
(* ListProcessor.list_group_continuation                                   *)
(***************************************************************************)
ListBlockTypes == {"ListGroup"}

IgnoredBlockTypes == {"PageHeader", "PageFooter"}

\* Document.get_next_block(block, ignored_block_types): the index of the first
\* block after block i, in document order and across pages, whose type is not
\* ignored; 0 (None) when there is none.
RECURSIVE GetNextBlock(_, _)
GetNextBlock(blocks, i) ==
    IF i + 1 > Len(blocks) THEN 0
    ELSE IF blocks[i + 1].block_type \notin IgnoredBlockTypes THEN i + 1
    ELSE GetNextBlock(blocks, i + 1)

ColumnBreakStrict(block, next_block) ==
    next_block.y_start < block.y_end

\* list.py:50  column_break = next_block.polygon.y_start <= block.polygon.y_end
ColumnBreak(block, next_block) ==
    next_block.y_start <= block.y_end

\* list.py:54-55  floor division of the page's width and height
InFirstQuadrant(next_block, next_page) ==
    /\ next_block.x_start < next_page.width \div 2
    /\ next_block.y_start < next_page.height \div 2

ContinuationOfBlockReset(blocks, pages, i) ==
    LET n == GetNextBlock(blocks, i)
        block == blocks[i]
    IN  IF n = 0 \/ blocks[n].block_type \notin ListBlockTypes
           \/ ~blocks[n].has_structure \/ blocks[n].ignore_for_output
        THEN [blocks EXCEPT ![i].has_continuation = FALSE]
        ELSE [blocks EXCEPT ![i].has_continuation =
                 IF blocks[n].page_id = block.page_id
                 THEN ColumnBreak(block, blocks[n])
                 ELSE InFirstQuadrant(blocks[n], pages[blocks[n].page_id])]

\* One iteration of the loop body for block i (list.py:35-57): the blocks after it.
ContinuationOfBlock(blocks, pages, i) ==
    LET n == GetNextBlock(blocks, i) IN
    IF n = 0 THEN blocks
    ELSE IF blocks[n].block_type \notin ListBlockTypes THEN blocks
    ELSE IF ~blocks[n].has_structure THEN blocks
    ELSE IF blocks[n].ignore_for_output THEN blocks
    ELSE
        LET block == blocks[i]
            next_block == blocks[n]
            same_page == next_block.page_id = block.page_id
            column_break == IF same_page THEN ColumnBreak(block, next_block) ELSE FALSE
            page_break == ~same_page
            next_block_in_first_quadrant ==
                IF same_page THEN FALSE
                ELSE InFirstQuadrant(next_block, pages[next_block.page_id])
        IN  [blocks EXCEPT ![i].has_continuation =
                column_break \/ (page_break /\ next_block_in_first_quadrant)]

\* The loop over the pages' ListGroup blocks, from block i on (list.py:33-34).
RECURSIVE ContinuationFrom(_, _, _)
ContinuationFrom(blocks, pages, i) ==
    IF i > Len(blocks) THEN blocks
    ELSE ContinuationFrom(
            IF blocks[i].block_type \in ListBlockTypes
            THEN ContinuationOfBlock(blocks, pages, i)
            ELSE blocks,
            pages, i + 1)

ListGroupContinuation ==
    /\ cont_pc = "ready"
    /\ doc_blocks' = ContinuationFrom(doc_blocks, doc_pages, 1)
    /\ cont_pc' = "done"
    /\ UNCHANGED <<doc_pages, doc_init, indVars, pairVars, corrVars, findVars, rwVars>>

\* A block of the document, as the continuation pass reads it.
DocBlock(type, page, hs, ig, xs, ys, ye) ==
    [block_type |-> type, page_id |-> page, has_structure |-> hs,
     ignore_for_output |-> ig, x_start |-> xs, y_start |-> ys, y_end |-> ye,
     has_continuation |-> FALSE]

\* The documents of the continuation pass: a ListGroup, then nothing, a page
\* header or a text block, then the candidate next block.  has_continuation
\* of a ListGroup is False on a new document and may be True on a document
\* the processor has run on before.
ContInit ==
    /\ IndIdle
    /\ PairIdle
    /\ CorrIdle
    /\ FindIdle
    /\ RwIdle
    /\ cont_pc = "ready"
    /\ \E w \in PageDims, h \in PageDims :
          doc_pages = [p \in 0 .. 1 |-> [width |-> IF p = 1 THEN w ELSE 4,
                                         height |-> IF p = 1 THEN h ELSE 4]]
    /\ \E ye \in Coords, mid \in {"None", "PageHeader", "Text"},
          type \in {"ListGroup", "Text"}, page \in 0 .. 1,
          hs \in BOOLEAN, ig \in BOOLEAN, xs \in Coords, ys \in Coords,
          flag \in BOOLEAN, next_flag \in BOOLEAN :
          LET first == [DocBlock("ListGroup", 0, TRUE, FALSE, 0, 0, ye)
                            EXCEPT !.has_continuation = flag]
              last == [DocBlock(type, page, hs, ig, xs, ys, MaxCoord)
                           EXCEPT !.has_continuation =
                               next_flag /\ type = "ListGroup"]
              between == DocBlock(mid, page, FALSE, FALSE, 0, 0, 0)
          IN  doc_blocks = IF mid = "None" THEN <<first, last>>
                           ELSE <<first, between, last>>
    /\ doc_init = doc_blocks

ContNext == ListGroupContinuation

SpecCont == ContInit /\ [][ContNext]_vars

(***************************************************************************)
(* ListProcessor.list_group_indentation                                    *)
(***************************************************************************)
\* min_x_indent = 0.01, in hundredths of the page width
MinXIndentPct == 1

\* page.polygon.width of the pages the list groups are on: the tolerance
\* min_x_indent * width is 4.
PageWidth == 400

Min2(a, b) == IF a <= b THEN a ELSE b

Max2(a, b) == IF a >= b THEN a ELSE b

RECURSIVE MinOf(_)
MinOf(xs) ==
    IF Len(xs) = 1 THEN xs[1] ELSE Min2(xs[1], MinOf(Tail(xs)))

Last(stack) == stack[Len(stack)]

Pop(stack) == SubSeq(stack, 1, Len(stack) - 1)

\* Block.get_next_block(page, None): the first entry of the structure, 0 (None)
\* when the structure is empty.
StructureFirst(structure) ==
    IF structure = <<>> THEN 0 ELSE structure[1]

\* Block.get_next_block(page, block): the entry after block id in the
\* structure, 0 (None) when id is the last one.
StructureNext(structure, id) ==
    LET k == CHOOSE j \in 1 .. Len(structure) :
                 /\ structure[j] = id
                 /\ \A h \in 1 .. j - 1 : structure[h] # id
    IN  IF k + 1 > Len(structure) THEN 0 ELSE structure[k + 1]

\* Block.add_structure(block): the parent's structure with the block's id appended.
AddStructure(structure, id) == Append(structure, id)

\* Block.remove_structure_items([id])
RemoveStructureItems(structure, id) ==
    SelectSeq(structure, LAMBDA e : e # id)

\* PolygonBox.merge: the bounding box of the two polygons, as fields of block p.
MergePolygon(p, c) ==
    [p EXCEPT !.x_start = Min2(p.x_start, c.x_start),
              !.y_start = Min2(p.y_start, c.y_start),
              !.x_end = Max2(p.x_end, c.x_end),
              !.y_end = Max2(p.y_end, c.y_end)]

\* list.py:76  x_start <= stack[-1].x_start + min_x_indent * page width
WithinIndent(item, top) ==
    100 * item.x_start <= 100 * top.x_start + MinXIndentPct * PageWidth

LevelIncrementTwo(item, top) ==
    IF 100 * item.x_start > 100 * top.x_start + MinXIndentPct * PageWidth
    THEN 2 ELSE 0

\* One level deeper per tolerance-wide step to the right.
LevelIncrementPerStep(item, top) ==
    IF 100 * item.x_start > 100 * top.x_start + 2 * MinXIndentPct * PageWidth
    THEN 2
    ELSE IF 100 * item.x_start > 100 * top.x_start + MinXIndentPct * PageWidth
    THEN 1 ELSE 0

\* list.py:81-82  one level deeper when x_start > stack[-1].x_start + tolerance
LevelIncrement(item, top) ==
    IF 100 * item.x_start > 100 * top.x_start + MinXIndentPct * PageWidth
    THEN 1 ELSE 0

\* list.py:76-77  while stack and ...: stack.pop()
RECURSIVE PopByXStart(_, _, _)
PopByXStart(stack, blocks, id) ==
    IF stack # <<>> /\ WithinIndent(blocks[id], blocks[Last(stack)])
    THEN PopByXStart(Pop(stack), blocks, id)
    ELSE stack

\* Only a ListItem carries list_indent_level; reading it from another block
\* raises AttributeError.
HasIndentLevel(block) == block.block_type = "ListItem"

\* list.py:70-92  the body of the first loop for structure entry id.  st holds
\* the page's blocks, the group's structure, the stack, indent_xstarts,
\* max_indent_level and whether an AttributeError was raised.
Pass1Item(st, id) ==
    LET item == st.blocks[id] IN
    IF item.block_type # "ListItem" THEN st
    ELSE
        LET stack1 == PopByXStart(st.stack, st.blocks, id)
            inherits == stack1 # <<>>
                        /\ item.y_start > st.blocks[Last(stack1)].y_start
        IN
        IF inherits /\ ~HasIndentLevel(st.blocks[Last(stack1)])
        THEN [st EXCEPT !.raised = TRUE]
        ELSE
            LET level == IF inherits
                         THEN st.blocks[Last(stack1)].list_indent_level
                              + LevelIncrement(item, st.blocks[Last(stack1)])
                         ELSE item.list_indent_level
                next_id == StructureNext(st.structure, id)
            IN  [st EXCEPT
                    !.blocks = [@ EXCEPT ![id].list_indent_level = level],
                    !.xs = [@ EXCEPT ![level] = Append(@, item.x_start)],
                    !.max = Max2(@, level),
                    !.stack = IF next_id # 0
                                 /\ st.blocks[next_id].x_start > item.x_end
                              THEN <<next_id>>
                              ELSE Append(stack1, id)]

\* list.py:69  for list_item_id in block.structure
RECURSIVE Pass1From(_, _)
Pass1From(st, k) ==
    IF k > Len(st.structure) \/ st.raised THEN st
    ELSE Pass1From(Pass1Item(st, st.structure[k]), k + 1)

LevelPopsStrict(item, top) ==
    item.list_indent_level < top.list_indent_level

\* list.py:98  list_indent_level <= stack[-1].list_indent_level
LevelPops(item, top) ==
    item.list_indent_level <= top.list_indent_level

\* list.py:98-99  while stack and ...: stack.pop(); reading list_indent_level
\* of a block that is no ListItem raises.
RECURSIVE PopByLevel(_, _, _)
PopByLevel(stack, blocks, id) ==
    IF stack = <<>> THEN [stack |-> stack, raised |-> FALSE]
    ELSE IF ~HasIndentLevel(blocks[id]) \/ ~HasIndentLevel(blocks[Last(stack)])
         THEN [stack |-> stack, raised |-> TRUE]
    ELSE IF LevelPops(blocks[id], blocks[Last(stack)])
         THEN PopByLevel(Pop(stack), blocks, id)
    ELSE [stack |-> stack, raised |-> FALSE]

ReparentKeep(st, parent, id) ==
    [st EXCEPT
        !.blocks = [@ EXCEPT ![parent] =
            MergePolygon([@ EXCEPT !.structure = AddStructure(@, id)],
                         st.blocks[id])]]

\* list.py:102-106  the item joins its parent's structure, the parent's polygon
\* grows to bound it, and the item leaves the group's structure.
Reparent(st, parent, id) ==
    [st EXCEPT
        !.blocks = [@ EXCEPT ![parent] =
            MergePolygon([@ EXCEPT !.structure = AddStructure(@, id)],
                         st.blocks[id])],
        !.structure = RemoveStructureItems(@, id)]

\* list.py:96-107  the body of the second loop for structure entry id
Pass2Item(st, id) ==
    LET popped == PopByLevel(st.stack, st.blocks, id) IN
    IF popped.raised THEN [st EXCEPT !.raised = TRUE]
    ELSE
        LET st1 == IF popped.stack # <<>>
                   THEN Reparent(st, Last(popped.stack), id)
                   ELSE st
        IN  [st1 EXCEPT !.stack = Append(popped.stack, id)]

\* list.py:95  for list_item_id in block.structure.copy()
RECURSIVE Pass2From(_, _, _)
Pass2From(st, snapshot, k) ==
    IF k > Len(snapshot) \/ st.raised THEN st
    ELSE Pass2From(Pass2Item(st, snapshot[k]), snapshot, k + 1)

\* list.append(value) where the code inserts at an index.
InsertAtEnd(seq, index, value) == Append(seq, value)

\* list.insert(index, value)
InsertAt(seq, index, value) ==
    LET k == Min2(index, Len(seq)) IN
    SubSeq(seq, 1, k) \o <<value>> \o SubSeq(seq, k + 1, Len(seq))

\* list.py:121-132  the dummy ListItem of one level, added to the next block's
\* page and inserted in the next block's structure at index level.
RECURSIVE InjectFrom(_, _, _, _, _, _)
InjectFrom(st, grps, g, n, next_polygon, level) ==
    IF level > st.max THEN [blocks |-> st.blocks, groups |-> grps, raised |-> FALSE]
    ELSE IF st.xs[level] = <<>> \/ ~grps[n].has_structure
         THEN [blocks |-> st.blocks, groups |-> grps, raised |-> TRUE]
    ELSE
        LET rel_x_start == MinOf(st.xs[level]) - grps[g].x_start - 3
            dummy_block ==
                [block_type |-> "ListItem",
                 page_id |-> grps[n].page_id,
                 x_start |-> next_polygon.x_start + rel_x_start,
                 y_start |-> next_polygon.y_start - (10 * (level + 1)),
                 x_end |-> next_polygon.x_end,
                 y_end |-> next_polygon.y_start - (5 * (level + 1)),
                 list_indent_level |-> 0,
                 structure |-> <<>>]
            blocks1 == Append(st.blocks, dummy_block)
        IN  InjectFrom([st EXCEPT !.blocks = blocks1],
                       [grps EXCEPT ![n].structure =
                            InsertAt(@, level, Len(blocks1))],
                       g, n, next_polygon, level + 1)

\* list.py:110-132  inject dummy blocks if the block has a continuation
Inject(st, grps, g) ==
    IF ~grps[g].has_continuation
    THEN [blocks |-> st.blocks, groups |-> grps, raised |-> FALSE]
    ELSE
        LET n == GetNextBlock(grps, g) IN
        IF n = 0 THEN [blocks |-> st.blocks, groups |-> grps, raised |-> FALSE]
        ELSE IF grps[n].block_type \notin ListBlockTypes
             THEN [blocks |-> st.blocks, groups |-> grps, raised |-> FALSE]
        ELSE InjectFrom(st, grps, g, n,
                        [x_start |-> grps[n].x_start, x_end |-> grps[n].x_end,
                         y_start |-> grps[n].y_start], 0)

\* list.py:62-132  one iteration of the loop over the ListGroup blocks: both
\* passes and the injection for block g.
IndentBlock(blocks, grps, g) ==
    IF ~grps[g].has_structure \/ grps[g].ignore_for_output
    THEN [blocks |-> blocks, groups |-> grps, raised |-> FALSE]
    ELSE
        LET st0 == [blocks |-> blocks, structure |-> grps[g].structure,
                    stack |-> <<StructureFirst(grps[g].structure)>>,
                    xs |-> [l \in 0 .. Len(blocks) |-> <<>>],
                    max |-> 0, raised |-> FALSE]
            st1 == Pass1From(st0, 1)
            st2 == Pass2From(
                       [st1 EXCEPT !.stack = <<StructureFirst(st1.structure)>>],
                       st1.structure, 1)
            grps2 == [grps EXCEPT ![g].structure = st2.structure]
        IN  IF st1.raised
            THEN [blocks |-> st1.blocks, groups |-> grps, raised |-> TRUE]
            ELSE IF st2.raised
            THEN [blocks |-> st2.blocks, groups |-> grps2, raised |-> TRUE]
            ELSE Inject(st2, grps2, g)

\* list.py:59-132  the loop reaches the next top-level block; blocks that are
\* no ListGroup are not among page.contained_blocks(document, block_types).
ListGroupIndentation ==
    /\ ind_i \in 1 .. Len(groups)
    /\ ~ind_raised
    /\ \E r \in {IF groups[ind_i].block_type \in ListBlockTypes
                 THEN IndentBlock(page_blocks, groups, ind_i)
                 ELSE [blocks |-> page_blocks, groups |-> groups,
                       raised |-> FALSE]} :
           /\ page_blocks' = r.blocks
           /\ groups' = r.groups
           /\ ind_raised' = r.raised
           /\ ind_i' = IF r.raised THEN ind_i ELSE ind_i + 1
    /\ UNCHANGED <<init_blocks, init_groups, contVars, pairVars, corrVars, findVars, rwVars>>

\* The most ListItems of a group.
MaxItems == 3

\* Left edges: steps within the tolerance (4) and beyond it.
XStarts == {0, 6, 10, 12}

YStarts == {0, 1, 2}

\* The right edge of the page's text area.
RightEdge == 30

ListItem(xs, ys, xe) ==
    [block_type |-> "ListItem", page_id |-> 0,
     x_start |-> xs, y_start |-> ys, x_end |-> xe,
     y_end |-> ys + 1, list_indent_level |-> 0, structure |-> <<>>]

\* A ListItem is narrow (the next left edge beyond the tolerance is a column
\* break) or reaches the right edge.
ItemChoices ==
    {ListItem(xs, ys, xe) : xs \in XStarts, ys \in YStarts, xe \in {RightEdge}}
    \cup {ListItem(xs, ys, xs + 4) : xs \in XStarts, ys \in YStarts}

SetMin(S) == CHOOSE m \in S : \A x \in S : m <= x

SetMax(S) == CHOOSE m \in S : \A x \in S : m >= x

\* A ListGroup on page `page` whose structure is the blocks `ids` of `blocks`
\* and whose polygon bounds them.
ListGroup(blocks, ids, page, flag) ==
    [block_type |-> "ListGroup", page_id |-> page, has_structure |-> TRUE,
     structure |-> ids, ignore_for_output |-> FALSE, has_continuation |-> flag,
     x_start |-> SetMin({blocks[ids[k]].x_start : k \in 1 .. Len(ids)}),
     x_end |-> SetMax({blocks[ids[k]].x_end : k \in 1 .. Len(ids)}),
     y_start |-> SetMin({blocks[ids[k]].y_start : k \in 1 .. Len(ids)}),
     y_end |-> SetMax({blocks[ids[k]].y_end : k \in 1 .. Len(ids)})]

\* One ListGroup of up to MaxItems ListItems, with no continuation.
IndInit ==
    /\ ContIdle
    /\ PairIdle
    /\ CorrIdle
    /\ FindIdle
    /\ RwIdle
    /\ \E n \in 1 .. MaxItems :
          \E items \in [1 .. n -> ItemChoices] :
              /\ page_blocks = items
              /\ groups = <<ListGroup(items, [k \in 1 .. n |-> k], 0, FALSE)>>
    /\ ind_i = 1
    /\ ind_raised = FALSE
    /\ init_blocks = page_blocks
    /\ init_groups = groups

IndNext == ListGroupIndentation

SpecIndent == IndInit /\ [][IndNext]_vars

(***************************************************************************)
(* LLMCrossPageTableProcessor.find_cross_page_table_pairs                  *)
(***************************************************************************)
\* max_column_difference
MaxColumnDifference == 3

MaxTables == 3

MaxPage == 2

\* The TableCells of a table, by the fields the pair finder reads.
PairCells == [row_id : {0, 1}, colspan : {0, 1, 5}]

\* table.contained_blocks(document, (TableCell,)): no cell, one or two.
TableCellLists ==
    {<<>>} \cup {<<c>> : c \in PairCells} \cup {<<c, d>> : c, d \in PairCells}

Abs(n) == IF n < 0 THEN 0 - n ELSE n

\* cols of one row: the colspans of the cells k, k+1, ... with that row_id
RECURSIVE RowCols(_, _, _)
RowCols(cells, row_id, k) ==
    IF k > Len(cells) THEN 0
    ELSE (IF cells[k].row_id = row_id THEN cells[k].colspan ELSE 0)
         + RowCols(cells, row_id, k + 1)

GetColumnCount(cells) ==
    IF cells = <<>> THEN 0
    ELSE LET cols == {RowCols(cells, cells[k].row_id, 1) : k \in DOMAIN cells}
             max_cols == CHOOSE m \in cols : \A c \in cols : c <= m
         IN IF max_cols # 0 THEN max_cols ELSE 0

ShouldCheckTablePairStrict(table1, table2) ==
    IF table1.cells = <<>> \/ table2.cells = <<>> THEN FALSE
    ELSE LET col_count1 == GetColumnCount(table1.cells)
             col_count2 == GetColumnCount(table2.cells)
             col_diff == IF col_count1 # 0 /\ col_count2 # 0
                         THEN Abs(col_count1 - col_count2) ELSE 0
         IN col_diff < MaxColumnDifference

ShouldCheckTablePair(table1, table2) ==
    IF table1.cells = <<>> \/ table2.cells = <<>> THEN FALSE
    ELSE LET col_count1 == GetColumnCount(table1.cells)
             col_count2 == GetColumnCount(table2.cells)
             col_diff == IF col_count1 # 0 /\ col_count2 # 0
                         THEN Abs(col_count1 - col_count2) ELSE 0
         IN col_diff <= MaxColumnDifference

KeepPrevTable(prev_table, table) ==
    IF prev_table = NoTable THEN table ELSE prev_table

\* prev_table after the iteration on table
NextPrevTable(prev_table, table) == table

\* One iteration of the loop over the tables of the document, pages in
\* order: the table is on the page of the table before it or on a later one.
ScanTable ==
    /\ pair_n < MaxTables
    /\ \E page_id \in 0 .. MaxPage, cells \in TableCellLists :
          /\ pair_prev # NoTable => page_id >= pair_prev.page_id
          /\ LET table == [id |-> pair_n + 1, page_id |-> page_id,
                           cells |-> cells]
             IN /\ pair_pairs' =
                      IF /\ pair_prev # NoTable
                         /\ pair_prev.page_id = table.page_id - 1
                         /\ ShouldCheckTablePair(pair_prev, table)
                      THEN Append(pair_pairs, <<pair_prev.id, table.id>>)
                      ELSE pair_pairs
                /\ pair_before' = pair_prev
                /\ pair_prev' = NextPrevTable(pair_prev, table)
                /\ pair_n' = pair_n + 1
    /\ UNCHANGED <<contVars, indVars, corrVars, findVars, rwVars>>

PairInit ==
    /\ ContIdle
    /\ IndIdle
    /\ CorrIdle
    /\ FindIdle
    /\ RwIdle
    /\ pair_prev = NoTable
    /\ pair_pairs = <<>>
    /\ pair_n = 0
    /\ pair_before = NoTable

PairNext == ScanTable

SpecPairs == PairInit /\ [][PairNext]_vars

(***************************************************************************)
(* LLMCrossPageTableProcessor.find_cell_at_location                        *)
(***************************************************************************)
MaxRowId == 2

MaxFindCells == 3

\* max(cell.row_id for cell in cells): raises on no cell
PyMaxRowId(cells) ==
    IF cells = <<>> THEN [value |-> 0, raised |-> TRUE]
    ELSE [value |-> CHOOSE m \in {cells[k].row_id : k \in DOMAIN cells} :
                        \A k \in DOMAIN cells : cells[k].row_id <= m,
          raised |-> FALSE]

\* max_row
MaxRow(cells) ==
    IF cells # <<>> THEN PyMaxRowId(cells) ELSE [value |-> -1, raised |-> FALSE]

ResolveRowShort(cells, row) ==
    IF row < 0 THEN MaxRow(cells).value + row ELSE row

\* row, after the handling of negative indexing
ResolveRow(cells, row) ==
    IF row < 0 THEN MaxRow(cells).value + row + 1 ELSE row

\* The index in cells of the cell found (0 for None): cell_lookup holds, for
\* a (row_id, col_id), the last cell of cells with it.
FindCellAtLocation(cells, row, col) ==
    IF row < 0 /\ MaxRow(cells).raised THEN [cell |-> 0, raised |-> TRUE]
    ELSE LET r == ResolveRow(cells, row)
             found == {k \in DOMAIN cells :
                          cells[k].row_id = r /\ cells[k].col_id = col}
         IN IF found # {}
            THEN [cell |-> CHOOSE k \in found : \A j \in found : j <= k,
                  raised |-> FALSE]
            ELSE NoCell

FindCell ==
    /\ find_pc = "ready"
    /\ find_result' = FindCellAtLocation(find_cells, find_row, find_col)
    /\ find_pc' = "done"
    /\ UNCHANGED <<find_cells, find_row, find_col,
                   contVars, indVars, pairVars, corrVars, rwVars>>

\* The TableCells of a collection, by the fields the lookup reads.
FindCellChoices == [row_id : 0 .. MaxRowId, col_id : {0, 1}]

FindInit ==
    /\ ContIdle
    /\ IndIdle
    /\ PairIdle
    /\ CorrIdle
    /\ RwIdle
    /\ \E n \in 0 .. MaxFindCells : find_cells \in [1 .. n -> FindCellChoices]
    /\ find_row \in (0 - MaxRowId - 2) .. (MaxRowId + 1)
    /\ find_col \in {0, 1, 2}
    /\ find_result = NoCell
    /\ find_pc = "ready"

FindNext == FindCell

SpecFind == FindInit /\ [][FindNext]_vars

(***************************************************************************)
(* LLMCrossPageTableProcessor.apply_corrections                            *)
(***************************************************************************)
MaxRuns == 2

\* " ".join(lines)
RECURSIVE Join(_)
Join(lines) ==
    IF lines = <<>> THEN <<>>
    ELSE IF Len(lines) = 1 THEN lines[1]
    ELSE lines[1] \o <<" ">> \o Join(Tail(lines))

\* source_text
SourceText(text_lines) ==
    IF text_lines # <<>> THEN Join(text_lines) ELSE <<>>

\* text_fragment in source_text
Contains(text, fragment) ==
    \E i \in 0 .. (Len(text) - Len(fragment)) :
        SubSeq(text, i + 1, i + Len(fragment)) = fragment

\* text.replace(old, ""), old not empty: every occurrence of old, from the left
RECURSIVE Replace(_, _)
Replace(text, old) ==
    IF Len(text) < Len(old) THEN text
    ELSE IF SubSeq(text, 1, Len(old)) = old
         THEN Replace(SubSeq(text, Len(old) + 1, Len(text)), old)
         ELSE <<Head(text)>> \o Replace(Tail(text), old)

RECURSIVE LStrip(_)
LStrip(text) ==
    IF text # <<>> /\ Head(text) = " " THEN LStrip(Tail(text)) ELSE text

RECURSIVE RStrip(_)
RStrip(text) ==
    IF text # <<>> /\ text[Len(text)] = " "
    THEN RStrip(SubSeq(text, 1, Len(text) - 1)) ELSE text

\* text.strip()
Strip(text) == LStrip(RStrip(text))

\* text.split(), after the characters of a word begun
RECURSIVE Split(_, _)
Split(text, word) ==
    IF text = <<>> THEN (IF word # <<>> THEN <<word>> ELSE <<>>)
    ELSE IF Head(text) = " "
         THEN (IF word # <<>> THEN <<word>> ELSE <<>>) \o Split(Tail(text), <<>>)
         ELSE Split(Tail(text), Append(word, Head(text)))

\* remaining_text
RemainingText(source_text, text_fragment) ==
    Join(Split(Strip(Replace(source_text, text_fragment)), <<>>))

\* cells1 if table_index == 0 else cells2, as an index in <<cells1, cells2>>
TableOf(loc) == IF loc.table_index = 0 THEN 1 ELSE 2

SetTextLines(cells, t, k, text_lines) ==
    [cells EXCEPT ![t][k].text_lines = text_lines]

Raised(cells) == [cells |-> cells, raised |-> TRUE]

Returned(cells) == [cells |-> cells, raised |-> FALSE]

CombineTextSwapped(text_lines, text, action) ==
    IF action = "prepend"
    THEN IF text_lines # <<>>
         THEN [text_lines EXCEPT ![Len(text_lines)] = @ \o <<" ">> \o text]
         ELSE <<text>>
    ELSE IF action = "append"
    THEN IF text_lines # <<>>
         THEN [text_lines EXCEPT ![1] = text \o <<" ">> \o @]
         ELSE <<text>>
    ELSE IF action = "replace" THEN <<text>>
    ELSE text_lines

\* target_cell.text_lines after the action on it
CombineText(text_lines, text, action) ==
    IF action = "append"
    THEN IF text_lines # <<>>
         THEN [text_lines EXCEPT ![Len(text_lines)] = @ \o <<" ">> \o text]
         ELSE <<text>>
    ELSE IF action = "prepend"
    THEN IF text_lines # <<>>
         THEN [text_lines EXCEPT ![1] = text \o <<" ">> \o @]
         ELSE <<text>>
    ELSE IF action = "replace" THEN <<text>>
    ELSE text_lines

\* The correction types, with source_cell found: cell sk of table st.  A
\* target of None is <<>>, a target location loc is <<loc>>; target_loc of
\* None raises where its table_index is read.
MergeCells(cells, correction, st, sk) ==
    IF correction.target = <<>> THEN Raised(cells)
    ELSE LET target_loc == correction.target[1]
             tt == TableOf(target_loc)
             target == FindCellAtLocation(cells[tt], target_loc.row, target_loc.col)
         IN IF target.raised THEN Raised(cells)
            ELSE IF target.cell = 0 THEN Returned(cells)
            ELSE LET source_text == SourceText(cells[st][sk].text_lines)
                     merged == SetTextLines(cells, tt, target.cell,
                                   CombineText(cells[tt][target.cell].text_lines,
                                               source_text, correction.action))
                 IN Returned(SetTextLines(merged, st, sk, <<>>))

MoveCell(cells, correction, st, sk) ==
    IF correction.target = <<>> THEN Raised(cells)
    ELSE LET target_loc == correction.target[1]
             tt == TableOf(target_loc)
             target == FindCellAtLocation(cells[tt], target_loc.row, target_loc.col)
         IN IF target.raised THEN Raised(cells)
            ELSE IF target.cell = 0 THEN Returned(cells)
            ELSE LET moved == SetTextLines(cells, tt, target.cell,
                                           cells[st][sk].text_lines)
                 IN Returned(SetTextLines(moved, st, sk, <<>>))

RemoveCell(cells, correction, st, sk) ==
    Returned(SetTextLines(cells, st, sk, <<>>))

\* A text_fragment of None is <<>>, as the empty string is.
MoveTextFragment(cells, correction, st, sk) ==
    IF correction.target = <<>> \/ correction.text_fragment = <<>>
    THEN Returned(cells)
    ELSE LET target_loc == correction.target[1]
             tt == TableOf(target_loc)
             target == FindCellAtLocation(cells[tt], target_loc.row, target_loc.col)
         IN IF target.raised THEN Raised(cells)
            ELSE IF target.cell = 0 THEN Returned(cells)
            ELSE LET source_text == SourceText(cells[st][sk].text_lines)
                 IN IF ~Contains(source_text, correction.text_fragment)
                    THEN Returned(cells)
                    ELSE LET remaining_text ==
                                 RemainingText(source_text, correction.text_fragment)
                             removed == SetTextLines(cells, st, sk,
                                            IF remaining_text # <<>>
                                            THEN <<remaining_text>> ELSE <<>>)
                         IN Returned(SetTextLines(removed, tt, target.cell,
                                CombineText(removed[tt][target.cell].text_lines,
                                            correction.text_fragment,
                                            correction.action)))

ApplySingleCorrection(cells, correction) ==
    LET st == TableOf(correction.source)
        source == FindCellAtLocation(cells[st], correction.source.row,
                                     correction.source.col)
    IN IF source.raised THEN Raised(cells)
       ELSE IF source.cell = 0 THEN Returned(cells)
       ELSE IF correction.type = "merge_cells"
            THEN MergeCells(cells, correction, st, source.cell)
       ELSE IF correction.type = "move_cell"
            THEN MoveCell(cells, correction, st, source.cell)
       ELSE IF correction.type = "remove_cell"
            THEN RemoveCell(cells, correction, st, source.cell)
       ELSE IF correction.type = "move_text_fragment"
            THEN MoveTextFragment(cells, correction, st, source.cell)
       ELSE Returned(cells)

\* One iteration of the loop of apply_corrections: an exception of the
\* correction is caught, and the loop goes on.
ApplyCorrection ==
    /\ corr_i \in 1 .. Len(corr_batch)
    /\ \E r \in {ApplySingleCorrection(corr_cells, corr_batch[corr_i])} :
          /\ corr_cells' = r.cells
          /\ corr_hist' = Append(corr_hist, r.cells)
    /\ corr_i' = corr_i + 1
    /\ UNCHANGED <<corr_batch, corr_data, contVars, indVars, pairVars, findVars, rwVars>>

\* The lines of a cell: "a" and "b a".
LineChoices == {<<"a">>, <<"b", " ", "a">>}

TextLinesChoices ==
    {<<>>} \cup {<<l>> : l \in LineChoices} \cup {<<l, m>> : l, m \in LineChoices}

FragmentChoices == {<<>>, <<"a">>, <<"b">>}

\* Rows 0 and -1 (the last row) of the first table, row 0 of the second
\* table, and a row the second table does not have.
LocChoices ==
    {[table_index |-> 0, row |-> 0, col |-> 0],
     [table_index |-> 0, row |-> -1, col |-> 0],
     [table_index |-> 1, row |-> 0, col |-> 0],
     [table_index |-> 1, row |-> 1, col |-> 0]}

TargetChoices == {<<>>} \cup {<<loc>> : loc \in LocChoices}

ActionChoices == {"append", "prepend", "replace"}

\* CorrectionItemSchema, with the fields a type does not read at their defaults
CorrectionChoices ==
    [type : {"merge_cells"}, source : LocChoices, target : TargetChoices,
     action : ActionChoices, text_fragment : {<<>>}]
    \cup [type : {"move_cell"}, source : LocChoices, target : TargetChoices,
          action : {"append"}, text_fragment : {<<>>}]
    \cup [type : {"remove_cell"}, source : LocChoices, target : {<<>>},
          action : {"append"}, text_fragment : {<<>>}]
    \cup [type : {"move_text_fragment"}, source : LocChoices,
          target : TargetChoices, action : ActionChoices,
          text_fragment : FragmentChoices]

TableCell(row_id, col_id, text_lines) ==
    [row_id |-> row_id, col_id |-> col_id, text_lines |-> text_lines]

\* Two tables of one column, of two rows and of one row; the corrections are
\* one correction, once or several times in a row.
CorrInit ==
    /\ ContIdle
    /\ IndIdle
    /\ PairIdle
    /\ FindIdle
    /\ RwIdle
    /\ \E l1, l2, l3 \in TextLinesChoices :
          corr_cells = <<<<TableCell(0, 0, l1), TableCell(1, 0, l2)>>,
                         <<TableCell(0, 0, l3)>>>>
    /\ \E c \in CorrectionChoices, n \in 1 .. MaxRuns :
          corr_batch = [k \in 1 .. n |-> c]
    /\ corr_i = 1
    /\ corr_hist = <<corr_cells>>
    /\ corr_data = <<>>

CorrNext == ApplyCorrection

SpecCorr == CorrInit /\ [][CorrNext]_vars

(***************************************************************************)
(* LLMCrossPageTableProcessor.process_table_pair: the corrections of the    *)
(* response, parsed one by one and then applied                            *)
(***************************************************************************)
MaxBatchLen == 2

CorrectionTypes == {"merge_cells", "move_cell", "remove_cell", "move_text_fragment"}

\* CorrectionItemSchema(**correction_dict) raises on a type or an action
\* that is not one of the literals.
ParsesAsCorrection(correction_dict) ==
    /\ correction_dict.type \in CorrectionTypes
    /\ correction_dict.action \in ActionChoices

RECURSIVE ParseCorrectionsUntilError(_)
ParseCorrectionsUntilError(corrections_data) ==
    IF corrections_data = <<>> THEN <<>>
    ELSE IF ParsesAsCorrection(Head(corrections_data))
         THEN <<Head(corrections_data)>>
              \o ParseCorrectionsUntilError(Tail(corrections_data))
         ELSE <<>>

\* corrections: the items that parse, in the order of corrections_data
RECURSIVE ParseCorrections(_)
ParseCorrections(corrections_data) ==
    IF corrections_data = <<>> THEN <<>>
    ELSE IF ParsesAsCorrection(Head(corrections_data))
         THEN <<Head(corrections_data)>> \o ParseCorrections(Tail(corrections_data))
         ELSE ParseCorrections(Tail(corrections_data))

\* The conversion of corrections_data to schema objects; apply_corrections
\* then runs on the corrections, if there is one.
ParseBatch ==
    /\ corr_i = 0
    /\ corr_data # <<>>
    /\ corr_batch' = ParseCorrections(corr_data)
    /\ corr_i' = 1
    /\ UNCHANGED <<corr_cells, corr_hist, corr_data,
                   contVars, indVars, pairVars, findVars, rwVars>>

Loc(table_index, row, col) ==
    [table_index |-> table_index, row |-> row, col |-> col]

CorrectionDict(type, source, target, action, text_fragment) ==
    [type |-> type, source |-> source, target |-> target, action |-> action,
     text_fragment |-> text_fragment]

\* Items of a response: of an unknown type, with a source or a target that
\* is no cell, without the target or the fragment their type needs, with a
\* fragment the source may not hold, and items that apply.
CorrectionDictChoices ==
    {CorrectionDict("split_cell", Loc(0, 0, 0), <<Loc(1, 0, 0)>>, "append", <<>>),
     CorrectionDict("remove_cell", Loc(1, 1, 0), <<>>, "append", <<>>),
     CorrectionDict("merge_cells", Loc(0, 0, 0), <<>>, "append", <<>>),
     CorrectionDict("merge_cells", Loc(0, 0, 0), <<Loc(1, 1, 0)>>, "append", <<>>),
     CorrectionDict("move_cell", Loc(0, -1, 0), <<>>, "append", <<>>),
     CorrectionDict("move_text_fragment", Loc(0, 0, 0), <<Loc(1, 0, 0)>>, "append", <<>>),
     CorrectionDict("move_text_fragment", Loc(0, 0, 0), <<>>, "append", <<"a">>),
     CorrectionDict("move_text_fragment", Loc(0, 0, 0), <<Loc(1, 0, 0)>>, "append", <<"b">>),
     CorrectionDict("merge_cells", Loc(0, 0, 0), <<Loc(1, 0, 0)>>, "append", <<>>),
     CorrectionDict("move_cell", Loc(1, 0, 0), <<Loc(0, -1, 0)>>, "append", <<>>),
     CorrectionDict("remove_cell", Loc(0, 0, 0), <<>>, "append", <<>>)}

BatchTextChoices == {<<>>, <<<<"a">>>>, <<<<"b", " ", "a">>>>}

BatchInit ==
    /\ ContIdle
    /\ IndIdle
    /\ PairIdle
    /\ FindIdle
    /\ RwIdle
    /\ \E l1, l2, l3 \in BatchTextChoices :
          corr_cells = <<<<TableCell(0, 0, l1), TableCell(1, 0, l2)>>,
                         <<TableCell(0, 0, l3)>>>>
    /\ \E n \in 1 .. MaxBatchLen : corr_data \in [1 .. n -> CorrectionDictChoices]
    /\ corr_batch = <<>>
    /\ corr_i = 0
    /\ corr_hist = <<corr_cells>>

BatchNext == ParseBatch \/ ApplyCorrection

SpecBatch == BatchInit /\ [][BatchNext]_vars

(***************************************************************************)
(* LLMCrossPageTableProcessor.rewrite_blocks                               *)
(***************************************************************************)
MaxPairs == 2

\* apply_corrections: the cells after the corrections k, k+1, ..., an
\* exception of a correction caught
RECURSIVE ApplyCorrections(_, _, _)
ApplyCorrections(cells, corrections, k) ==
    IF k > Len(corrections) THEN cells
    ELSE ApplyCorrections(ApplySingleCorrection(cells, corrections[k]).cells,
                          corrections, k + 1)

\* What iterating over a value that is no list of objects yields: an element
\* that is no object, on which CorrectionItemSchema(**element) raises.
NotAnObject == CorrectionDict("", Loc(0, 0, 0), <<>>, "", <<>>)

\* A value of the corrections key: whether it is true in a condition,
\* whether a for loop can iterate over it, and what the loop yields.
CorrectionsValue(kind, truthy, iterable, items) ==
    [kind |-> kind, truthy |-> truthy, iterable |-> iterable, items |-> items]

CorrectionsValueChoices ==
    {CorrectionsValue("list", FALSE, TRUE, <<>>),
     CorrectionsValue("list", TRUE, TRUE,
         <<CorrectionDict("remove_cell", Loc(0, 0, 0), <<>>, "append", <<>>)>>),
     CorrectionsValue("list", TRUE, TRUE,
         <<CorrectionDict("split_cell", Loc(0, 0, 0), <<>>, "append", <<>>),
           CorrectionDict("merge_cells", Loc(0, 0, 0), <<Loc(1, 0, 0)>>, "append", <<>>)>>),
     CorrectionsValue("str", TRUE, TRUE, <<NotAnObject>>),
     CorrectionsValue("int", TRUE, FALSE, <<>>),
     CorrectionsValue("null", FALSE, FALSE, <<>>)}

\* What the environment gives one pair: get_image, render_html_with_row_ids
\* or llm_service raising, or the response: None, {} or a dict, with the
\* corrections key or without.
Outcome(raises, response, has_corrections, corrections) ==
    [raises |-> raises, response |-> response,
     has_corrections |-> has_corrections, corrections |-> corrections]

OutcomeChoices ==
    {Outcome(stage, "dict", FALSE, CorrectionsValue("null", FALSE, FALSE, <<>>)) :
        stage \in {"image", "html", "llm"}}
    \cup {Outcome("", response, FALSE, CorrectionsValue("null", FALSE, FALSE, <<>>)) :
            response \in {"None", "empty dict", "dict"}}
    \cup {Outcome("", "dict", TRUE, value) : value \in CorrectionsValueChoices}

Unchanged(cells) == [cells |-> cells, raised |-> FALSE]

\* process_table_pair on <<cells1, cells2>>: the loop over corrections_data
\* is in no try, and a value it cannot iterate over raises TypeError.
ProcessTablePair(cells, outcome) ==
    IF cells[1] = <<>> \/ cells[2] = <<>> THEN Unchanged(cells)
    ELSE IF outcome.raises \in {"image", "html", "llm"} THEN Unchanged(cells)
    ELSE IF outcome.response \in {"None", "empty dict"} \/ ~outcome.has_corrections
         THEN Unchanged(cells)
    ELSE IF ~outcome.corrections.truthy THEN Unchanged(cells)
    ELSE IF ~outcome.corrections.iterable THEN [cells |-> cells, raised |-> TRUE]
    ELSE LET corrections == ParseCorrections(outcome.corrections.items)
         IN IF corrections # <<>>
            THEN [cells |-> ApplyCorrections(cells, corrections, 1), raised |-> FALSE]
            ELSE Unchanged(cells)

\* One iteration of the loop over table_pairs; an exception of
\* process_table_pair leaves rewrite_blocks.
RewritePair ==
    /\ rw_i \in 1 .. Len(rw_pairs)
    /\ ~rw_raised
    /\ \E outcome \in OutcomeChoices :
          \E r \in {ProcessTablePair(<<rw_tables[rw_pairs[rw_i][1]],
                                       rw_tables[rw_pairs[rw_i][2]]>>, outcome)} :
              /\ rw_tables' = [rw_tables EXCEPT ![rw_pairs[rw_i][1]] = r.cells[1],
                                                ![rw_pairs[rw_i][2]] = r.cells[2]]
              /\ rw_raised' = r.raised
              /\ rw_i' = IF r.raised THEN rw_i ELSE rw_i + 1
              /\ rw_last' = <<outcome>>
    /\ rw_before' = rw_tables
    /\ UNCHANGED <<rw_pairs, contVars, indVars, pairVars, corrVars, findVars>>

\* Tables of one cell on consecutive pages: each table and the next one are
\* a pair of find_cross_page_table_pairs.
RewriteInit ==
    /\ ContIdle
    /\ IndIdle
    /\ PairIdle
    /\ CorrIdle
    /\ FindIdle
    /\ rw_tables \in [1 .. (MaxPairs + 1) ->
                         {<<TableCell(0, 0, l)>> : l \in BatchTextChoices}]
    /\ rw_pairs = [k \in 1 .. MaxPairs |-> <<k, k + 1>>]
    /\ rw_i = 1
    /\ rw_raised = FALSE
    /\ rw_last = <<>>
    /\ rw_before = rw_tables

RewriteNext == RewritePair

SpecRewrite == RewriteInit /\ [][RewriteNext]_vars

(***************************************************************************)
(* ListProcessor.list_group_indentation on a ListGroup and the block after *)
(* it                                                                      *)
(***************************************************************************)
\* Left edges more than the tolerance apart.
InjectXStarts == {0, 6, 12}

\* The top edge of the block after the ListGroup: room for the dummy blocks
\* above it.
NextTop == 10 * (MaxItems + 1)

\* ListItems of the full width, one below the other from y_start on.
ItemColumn(xs, y_start, page) ==
    [k \in 1 .. Len(xs) |->
        [ListItem(xs[k], y_start + k - 1, RightEdge) EXCEPT !.page_id = page]]

\* A block that is no ListGroup, by the fields of a ListGroup.
OtherBlock(type, page) ==
    [block_type |-> type, page_id |-> page, has_structure |-> FALSE,
     structure |-> <<>>, ignore_for_output |-> FALSE, has_continuation |-> FALSE,
     x_start |-> 0, x_end |-> RightEdge, y_start |-> NextTop, y_end |-> NextTop + 1]

\* A ListGroup of one column, then a page header or not, then a ListGroup of
\* one column or a text block, on the same page (the next column) or on the
\* next page.  ListGroups have a structure.  has_continuation is as
\* list_group_continuation left it: set or not before a ListGroup, and
\* possibly still set from an earlier run before a block that is none.
InjectInit ==
    /\ ContIdle
    /\ PairIdle
    /\ CorrIdle
    /\ FindIdle
    /\ RwIdle
    /\ \E n1 \in 1 .. MaxItems, n2 \in 0 .. (MaxItems - 1), page \in 0 .. 1,
          header \in BOOLEAN, flag \in BOOLEAN :
          \E xs1 \in [1 .. n1 -> InjectXStarts], xs2 \in [1 .. n2 -> InjectXStarts] :
              LET blocks == ItemColumn(xs1, 0, 0) \o ItemColumn(xs2, NextTop, page)
                  first == ListGroup(blocks, [k \in 1 .. n1 |-> k], 0, flag)
                  next == IF n2 = 0 THEN OtherBlock("Text", page)
                          ELSE ListGroup(blocks, [k \in 1 .. n2 |-> n1 + k],
                                         page, FALSE)
              IN /\ page_blocks = blocks
                 /\ groups = IF header
                             THEN <<first, OtherBlock("PageHeader", page), next>>
                             ELSE <<first, next>>
    /\ ind_i = 1
    /\ ind_raised = FALSE
    /\ init_blocks = page_blocks
    /\ init_groups = groups

InjectNext == ListGroupIndentation

SpecInject == InjectInit /\ [][InjectNext]_vars

(***************************************************************************)
(* ListProcessor.list_group_indentation on a ListGroup with stray lines    *)
(***************************************************************************)
\* A line directly in a ListGroup's structure.
Line(xs, ys, xe) ==
    [block_type |-> "Line", page_id |-> 0,
     x_start |-> xs, y_start |-> ys, x_end |-> xe,
     y_end |-> ys + 1, structure |-> <<>>]

\* A ListItem or a Line of the full width at the left edge xs.
EntryChoices(ys) ==
    {ListItem(xs, ys, RightEdge) : xs \in InjectXStarts}
        \cup {Line(xs, ys, RightEdge) : xs \in {0, 6}}

\* One ListGroup of up to MaxItems + 1 entries, one below the other, each a
\* ListItem or a Line, with no continuation.
MixedInit ==
    /\ ContIdle
    /\ PairIdle
    /\ CorrIdle
    /\ FindIdle
    /\ RwIdle
    /\ \E n \in 1 .. (MaxItems + 1) :
          /\ page_blocks \in [1 .. n -> UNION {EntryChoices(ys) : ys \in 0 .. MaxItems}]
          /\ \A k \in 1 .. n : page_blocks[k].y_start = k - 1
          /\ groups = <<ListGroup(page_blocks, [k \in 1 .. n |-> k], 0, FALSE)>>
    /\ ind_i = 1
    /\ ind_raised = FALSE
    /\ init_blocks = page_blocks
    /\ init_groups = groups

MixedNext == ListGroupIndentation

SpecMixed == MixedInit /\ [][MixedNext]_vars

(***************************************************************************)
(* Claims about list_group_continuation, checked under SpecCont.           *)
(***************************************************************************)
\* Block i is a ListGroup whose next non-ignored block n is an
\* output-eligible ListGroup with structure.
HasEligibleNext(i, n) ==
    /\ i \in 1 .. Len(doc_blocks)
    /\ doc_blocks[i].block_type \in ListBlockTypes
    /\ n = GetNextBlock(doc_blocks, i)
    /\ n # 0
    /\ doc_blocks[n].block_type \in ListBlockTypes
    /\ doc_blocks[n].has_structure
    /\ ~doc_blocks[n].ignore_for_output

\* C1: after the pass, a ListGroup whose eligible next ListGroup is on the
\* same page has has_continuation = TRUE exactly when the next block's
\* y_start is at or above the block's y_end (next.y_start <= block.y_end).
C1_SamePageColumnBreak ==
    cont_pc = "done" =>
        \A i, n \in 1 .. Len(doc_blocks) :
            (HasEligibleNext(i, n) /\ doc_blocks[n].page_id = doc_blocks[i].page_id)
            => (doc_blocks[i].has_continuation
                    <=> doc_blocks[n].y_start <= doc_blocks[i].y_end)

\* The pass has run on a same-page pair whose next block starts exactly at the
\* block's bottom edge, and the flag was set.
C1_Witness ==
    /\ cont_pc = "done"
    /\ \E i, n \in 1 .. Len(doc_blocks) :
          /\ HasEligibleNext(i, n)
          /\ doc_blocks[n].page_id = doc_blocks[i].page_id
          /\ doc_blocks[n].y_start = doc_blocks[i].y_end
          /\ doc_blocks[i].has_continuation

\* C2: after the pass, a ListGroup whose eligible next ListGroup is on a
\* different page has has_continuation = TRUE exactly when the next block's
\* x_start is below half the page width and its y_start below half the page
\* height, the halves being exact (2 * x < width, 2 * y < height).
C2_ExactHalfQuadrant ==
    cont_pc = "done" =>
        \A i, n \in 1 .. Len(doc_blocks) :
            (HasEligibleNext(i, n) /\ doc_blocks[n].page_id # doc_blocks[i].page_id)
            => (doc_blocks[i].has_continuation
                    <=> /\ 2 * doc_blocks[n].x_start
                            < doc_pages[doc_blocks[n].page_id].width
                        /\ 2 * doc_blocks[n].y_start
                            < doc_pages[doc_blocks[n].page_id].height)

\* Block i is a ListGroup whose next non-ignored block is absent, is no
\* ListGroup, has no structure or is marked ignore_for_output.
HasNoEligibleNext(i) ==
    /\ doc_blocks[i].block_type \in ListBlockTypes
    /\ \A n \in 1 .. Len(doc_blocks) : ~HasEligibleNext(i, n)

\* The pass changed no page and no block but for has_continuation of the
\* ListGroups.
OnlyContinuationChanged ==
    /\ Len(doc_blocks) = Len(doc_init)
    /\ \A i \in 1 .. Len(doc_blocks) :
          /\ [doc_blocks[i] EXCEPT !.has_continuation = FALSE]
                = [doc_init[i] EXCEPT !.has_continuation = FALSE]
          /\ doc_blocks[i].block_type \notin ListBlockTypes =>
                doc_blocks[i] = doc_init[i]

\* C14 (as stated): after the pass, a ListGroup without an eligible next
\* block has has_continuation = FALSE, whatever the flag was before the
\* pass, and the pass changed nothing but has_continuation of ListGroups.
C14_IneligibleNextClearsFlag ==
    cont_pc = "done" =>
        /\ \A i \in 1 .. Len(doc_blocks) :
              HasNoEligibleNext(i) => ~doc_blocks[i].has_continuation
        /\ OnlyContinuationChanged

\* C14 (amended): after the pass, a ListGroup without an eligible next block
\* has the has_continuation it had before the pass (FALSE on a new
\* document), and the pass changed nothing but has_continuation of
\* ListGroups.
C14_IneligibleNextKeepsFlag ==
    cont_pc = "done" =>
        /\ \A i \in 1 .. Len(doc_blocks) :
              HasNoEligibleNext(i) =>
                  doc_blocks[i].has_continuation = doc_init[i].has_continuation
        /\ OnlyContinuationChanged

\* The pass has run on a ListGroup whose flag was set and whose next block
\* is a ListGroup marked ignore_for_output: the flag is still set.
C14_Witness ==
    /\ cont_pc = "done"
    /\ HasNoEligibleNext(1)
    /\ GetNextBlock(doc_blocks, 1) # 0
    /\ doc_blocks[GetNextBlock(doc_blocks, 1)].block_type \in ListBlockTypes
    /\ doc_blocks[GetNextBlock(doc_blocks, 1)].ignore_for_output
    /\ doc_init[1].has_continuation
    /\ doc_blocks[1].has_continuation

(***************************************************************************)
(* Claims about list_group_indentation, checked under SpecIndent.          *)
(***************************************************************************)
\* The loop has processed block g, a ListGroup whose structure, before the
\* pass, held ListItems only, all with list_indent_level 0.
ProcessedListGroup(g) ==
    /\ g \in 1 .. Len(init_groups)
    /\ g < ind_i
    /\ ~ind_raised
    /\ init_groups[g].block_type \in ListBlockTypes
    /\ init_groups[g].has_structure
    /\ ~init_groups[g].ignore_for_output
    /\ \A k \in 1 .. Len(init_groups[g].structure) :
          /\ init_blocks[init_groups[g].structure[k]].block_type = "ListItem"
          /\ init_blocks[init_groups[g].structure[k]].list_indent_level = 0

\* The blocks of group g's structure before the pass, in structure order.
ItemsBefore(g) ==
    [k \in 1 .. Len(init_groups[g].structure) |->
        init_blocks[init_groups[g].structure[k]]]

\* The list_indent_level of group g's original items now, in structure order.
LevelsNow(g) ==
    [k \in 1 .. Len(init_groups[g].structure) |->
        page_blocks[init_groups[g].structure[k]].list_indent_level]

\* C3: a ListGroup with no continuation whose ListItems share one x_start and
\* start at level 0 keeps, after list_group_indentation, every item at level
\* 0, its structure as it was, and every item's own structure as it was.
C3_FlatGroupUnchanged ==
    \A g \in 1 .. Len(init_groups) :
        (/\ ProcessedListGroup(g)
         /\ ~init_groups[g].has_continuation
         /\ \A j, k \in 1 .. Len(ItemsBefore(g)) :
               ItemsBefore(g)[j].x_start = ItemsBefore(g)[k].x_start)
        => /\ \A k \in 1 .. Len(LevelsNow(g)) : LevelsNow(g)[k] = 0
           /\ groups[g].structure = init_groups[g].structure
           /\ \A id \in 1 .. Len(init_blocks) :
                 page_blocks[id].structure = init_blocks[id].structure

\* Both passes have run on a group of MaxItems items that share one x_start.
C3_Witness ==
    /\ ProcessedListGroup(1)
    /\ Len(ItemsBefore(1)) = MaxItems
    /\ \A j, k \in 1 .. Len(ItemsBefore(1)) :
          ItemsBefore(1)[j].x_start = ItemsBefore(1)[k].x_start
    /\ \E j, k \in 1 .. Len(ItemsBefore(1)) :
          ItemsBefore(1)[j].y_start < ItemsBefore(1)[k].y_start

\* Group g's items have strictly increasing x_start in structure order.
IncreasingXStart(g) ==
    \A k \in 1 .. Len(ItemsBefore(g)) - 1 :
        ItemsBefore(g)[k].x_start < ItemsBefore(g)[k + 1].x_start

\* The levels of group g's items never decrease and rise by at most 1 per item.
LevelsRiseByAtMostOne(g) ==
    \A k \in 1 .. Len(LevelsNow(g)) - 1 :
        /\ LevelsNow(g)[k] <= LevelsNow(g)[k + 1]
        /\ LevelsNow(g)[k + 1] <= LevelsNow(g)[k] + 1

\* C4, as claimed: ListItems of one group with strictly increasing x_start get
\* levels that are non-decreasing in structure order and rise by at most 1 per
\* item.
C4_IncreasingXStartLevels ==
    \A g \in 1 .. Len(init_groups) :
        (ProcessedListGroup(g) /\ IncreasingXStart(g)) => LevelsRiseByAtMostOne(g)

\* Group g's items run down one column: each item starts below the one before
\* it and no item starts right of its predecessor's right edge.
SingleColumn(g) ==
    \A k \in 1 .. Len(ItemsBefore(g)) - 1 :
        /\ ItemsBefore(g)[k].y_start < ItemsBefore(g)[k + 1].y_start
        /\ ItemsBefore(g)[k + 1].x_start <= ItemsBefore(g)[k].x_end

\* C4, amended: ListItems of one group with strictly increasing x_start that
\* run down one column (strictly increasing y_start, no column break) get
\* levels that are non-decreasing and rise by at most 1 per item.
C4_SingleColumnLevels ==
    \A g \in 1 .. Len(init_groups) :
        (ProcessedListGroup(g) /\ IncreasingXStart(g) /\ SingleColumn(g))
        => LevelsRiseByAtMostOne(g)

\* Pass 1 has resolved three items of one column to levels 0, 1 and 1: a step
\* beyond the tolerance, then a step within it.
C4_Witness ==
    /\ ProcessedListGroup(1)
    /\ IncreasingXStart(1)
    /\ SingleColumn(1)
    /\ LevelsNow(1) = <<0, 1, 1>>

\* Items k and k + 1 of group g are consecutive in one column: the second
\* starts below the first and not right of its right edge.
ConsecutiveInColumn(g, k) ==
    /\ ItemsBefore(g)[k].y_start < ItemsBefore(g)[k + 1].y_start
    /\ ItemsBefore(g)[k + 1].x_start <= ItemsBefore(g)[k].x_end

\* x_start b is at most the tolerance right of x_start a.
WithinToleranceRightOf(a, b) ==
    /\ a <= b
    /\ 100 * b <= 100 * a + MinXIndentPct * PageWidth

\* C18, as claimed: two consecutive ListItems of one group and column whose
\* x_start values differ by at most the tolerance get the same
\* list_indent_level in Pass 1, whatever precedes them.
C18_NearXStartSameLevel ==
    \A g \in 1 .. Len(init_groups) :
        ProcessedListGroup(g) =>
            \A k \in 1 .. Len(ItemsBefore(g)) - 1 :
                (/\ ConsecutiveInColumn(g, k)
                 /\ \/ WithinToleranceRightOf(ItemsBefore(g)[k].x_start,
                                              ItemsBefore(g)[k + 1].x_start)
                    \/ WithinToleranceRightOf(ItemsBefore(g)[k + 1].x_start,
                                              ItemsBefore(g)[k].x_start))
                => LevelsNow(g)[k] = LevelsNow(g)[k + 1]

\* C18, amended: in a group whose ListItems start at level 0 and run down one
\* column (each below the one before, no column break), two consecutive
\* ListItems of which the second has its x_start at or right of the first's
\* by at most the tolerance get the same list_indent_level.
C18_SingleColumnNearXStartSameLevel ==
    \A g \in 1 .. Len(init_groups) :
        (ProcessedListGroup(g) /\ SingleColumn(g)) =>
            \A k \in 1 .. Len(ItemsBefore(g)) - 1 :
                WithinToleranceRightOf(ItemsBefore(g)[k].x_start,
                                       ItemsBefore(g)[k + 1].x_start)
                => LevelsNow(g)[k] = LevelsNow(g)[k + 1]

\* Under an item at the left, an item and a second one slightly right of it
\* are both at level 1 and both children of the first item.
C18_Witness ==
    /\ ProcessedListGroup(1)
    /\ SingleColumn(1)
    /\ Len(ItemsBefore(1)) = 3
    /\ ItemsBefore(1)[2].x_start < ItemsBefore(1)[3].x_start
    /\ WithinToleranceRightOf(ItemsBefore(1)[2].x_start, ItemsBefore(1)[3].x_start)
    /\ LevelsNow(1)[2] = 1
    /\ LevelsNow(1)[3] = 1
    /\ page_blocks[init_groups[1].structure[1]].structure
          = SubSeq(init_groups[1].structure, 2, 3)

\* The number of times id occurs in seq.
Occurrences(seq, id) ==
    Cardinality({k \in 1 .. Len(seq) : seq[k] = id})

\* The blocks that hold id in their structure.
ParentsOf(id) ==
    {p \in 1 .. Len(page_blocks) : Occurrences(page_blocks[p].structure, id) > 0}

\* Following parent links from id reaches group g's structure within `fuel` steps.
RECURSIVE ReachesTopLevel(_, _, _)
ReachesTopLevel(g, id, fuel) ==
    IF Occurrences(groups[g].structure, id) > 0 THEN TRUE
    ELSE IF fuel = 0 \/ ParentsOf(id) = {} THEN FALSE
    ELSE \A p \in ParentsOf(id) : ReachesTopLevel(g, p, fuel - 1)

\* The blocks reached from id by following parent links up to `fuel` times.
RECURSIVE AncestorsOf(_, _)
AncestorsOf(id, fuel) ==
    IF fuel = 0 THEN {}
    ELSE ParentsOf(id)
         \cup UNION {AncestorsOf(p, fuel - 1) : p \in ParentsOf(id)}

\* C5: after Pass 2 on a group of ListItems the result is a forest: every
\* original child is held exactly once (by the group or by one item), parent
\* links lead from every item to the group's top level, and no item is its
\* own ancestor.
C5_ReparentingIsForest ==
    \A g \in 1 .. Len(init_groups) :
        ProcessedListGroup(g) =>
            \A k \in 1 .. Len(init_groups[g].structure) :
                LET id == init_groups[g].structure[k] IN
                /\ \/ /\ Occurrences(groups[g].structure, id) = 1
                      /\ ParentsOf(id) = {}
                   \/ /\ Occurrences(groups[g].structure, id) = 0
                      /\ Cardinality(ParentsOf(id)) = 1
                      /\ \A p \in ParentsOf(id) :
                            Occurrences(page_blocks[p].structure, id) = 1
                /\ ReachesTopLevel(g, id, Len(page_blocks))
                /\ id \notin AncestorsOf(id, Len(page_blocks))

\* Pass 2 has nested a group three deep: an item under an item under a
\* top-level item.
C5_Witness ==
    /\ ProcessedListGroup(1)
    /\ \E a, b, c \in 1 .. Len(page_blocks) :
          /\ Occurrences(groups[1].structure, a) = 1
          /\ Occurrences(page_blocks[a].structure, b) = 1
          /\ Occurrences(page_blocks[b].structure, c) = 1

(***************************************************************************)
(* Claims about the placeholder injection, checked under SpecInject.       *)
(***************************************************************************)
\* The number of blocks the pass has created.
Created == Len(page_blocks) - Len(init_blocks)

\* The id of the L-th block created, L from 0.
Placeholder(L) == Len(init_blocks) + L + 1

\* The largest list_indent_level among the original items of group g.
MaxLevel(g) == SetMax({LevelsNow(g)[k] : k \in 1 .. Len(LevelsNow(g))})

\* Group g has its flag set and a ListGroup as next non-ignored block.
Continues(g) ==
    /\ init_groups[g].has_continuation
    /\ GetNextBlock(init_groups, g) # 0
    /\ init_groups[GetNextBlock(init_groups, g)].block_type \in ListBlockTypes

\* C15: placeholders are injected for a processed ListGroup if and only if
\* its flag is set and its next non-ignored block is a ListGroup: then
\* max_indent_level + 1 ListItems of level 0 are created on the next block's
\* page, and the next block's structure is the placeholders of levels 0, 1,
\* ... in that order followed by its previous entries; otherwise no block is
\* created and no structure of another block changes.  The injection does
\* not raise.
C15_InjectionIffContinuation ==
    /\ ~(ind_raised /\ ind_i = 1)
    /\ (ind_i = 2 /\ ProcessedListGroup(1)) =>
          LET n == GetNextBlock(init_groups, 1) IN
          /\ Continues(1) =>
                /\ Created = MaxLevel(1) + 1
                /\ \A L \in 0 .. MaxLevel(1) :
                      /\ page_blocks[Placeholder(L)].block_type = "ListItem"
                      /\ page_blocks[Placeholder(L)].list_indent_level = 0
                      /\ page_blocks[Placeholder(L)].page_id = init_groups[n].page_id
                /\ groups[n].structure =
                      [L \in 1 .. (MaxLevel(1) + 1) |-> Placeholder(L - 1)]
                          \o init_groups[n].structure
          /\ ~Continues(1) =>
                /\ Created = 0
                /\ \A k \in 2 .. Len(groups) :
                      groups[k].structure = init_groups[k].structure

\* A group of levels 0, 1 and 2 has put three placeholders before the two
\* items of the ListGroup on the next page, which is behind a page header.
C15_Witness ==
    /\ ind_i = 2
    /\ ProcessedListGroup(1)
    /\ Continues(1)
    /\ GetNextBlock(init_groups, 1) = 3
    /\ init_groups[3].page_id = 1
    /\ MaxLevel(1) = 2
    /\ Created = 3
    /\ Len(init_groups[3].structure) = 2
    /\ Len(groups[3].structure) = 5

\* The smallest x_start among the original items of group g resolved to level L.
MinXStartOfLevel(g, L) ==
    SetMin({ItemsBefore(g)[k].x_start :
               k \in {j \in 1 .. Len(LevelsNow(g)) : LevelsNow(g)[j] = L}})

\* C16: once the continuation group is processed too, its Pass 1 has resolved
\* the placeholder of level L to list_indent_level L, for every L up to the
\* max indent level M of the first group; a real item of the continuation
\* group whose x_start relative to its group is that of level L >= 1 of the
\* first group has level L and is a child of the placeholder of level L - 1.
C16_PlaceholdersResolveToLevels ==
    (/\ ind_i = Len(groups) + 1
     /\ ~ind_raised
     /\ ProcessedListGroup(1)
     /\ Continues(1)) =>
        LET n == GetNextBlock(init_groups, 1) IN
        /\ \A L \in 0 .. MaxLevel(1) :
              page_blocks[Placeholder(L)].list_indent_level = L
        /\ \A L \in 1 .. MaxLevel(1) :
              \A k \in 1 .. Len(init_groups[n].structure) :
                  LET id == init_groups[n].structure[k] IN
                  (init_blocks[id].x_start - init_groups[n].x_start
                      = MinXStartOfLevel(1, L) - init_groups[1].x_start) =>
                      /\ page_blocks[id].list_indent_level = L
                      /\ Occurrences(page_blocks[Placeholder(L - 1)].structure, id) = 1

(***************************************************************************)
(* Claims about stray lines in a ListGroup, checked under SpecMixed.       *)
(***************************************************************************)
\* The entries of seq that are no ListItem, in order.
RECURSIVE NonListItems(_)
NonListItems(seq) ==
    IF seq = <<>> THEN <<>>
    ELSE IF init_blocks[Head(seq)].block_type = "ListItem"
         THEN NonListItems(Tail(seq))
         ELSE <<Head(seq)>> \o NonListItems(Tail(seq))

\* The structure of group g holds ListItems and other entries.
Mixed(g) ==
    /\ init_groups[g].block_type \in ListBlockTypes
    /\ NonListItems(init_groups[g].structure) # <<>>
    /\ Len(NonListItems(init_groups[g].structure)) < Len(init_groups[g].structure)

\* C17: for a ListGroup whose structure mixes ListItems with other entries
\* the pass completes without raising, and afterwards the other entries are
\* still in the group's structure in their original order and in no
\* ListItem's structure.
C17_NonListItemsStayAtTopLevel ==
    (Mixed(1) /\ (ind_i > 1 \/ ind_raised)) =>
        /\ ~ind_raised
        /\ NonListItems(groups[1].structure) = NonListItems(init_groups[1].structure)
        /\ \A id \in 1 .. Len(init_blocks) :
              init_blocks[id].block_type = "ListItem" =>
                  NonListItems(page_blocks[id].structure) = <<>>

(***************************************************************************)
(* Claims about find_cross_page_table_pairs, checked under SpecPairs.      *)
(***************************************************************************)
\* The column count of a table with cells: the largest, over its row ids,
\* of the sum of the colspans of the cells of the row.
ColCount(cells) ==
    LET sums == {RowCols(cells, r, 1) : r \in {cells[k].row_id : k \in DOMAIN cells}}
    IN CHOOSE m \in sums : \A s \in sums : s <= m

\* The last iteration put the pair (prev_table, table) in pairs.
LastPairReturned ==
    \E k \in DOMAIN pair_pairs : pair_pairs[k] = <<pair_before.id, pair_prev.id>>

\* The last table scanned and the table before it are on consecutive pages
\* and both have a cell.
LastPairEligible ==
    /\ pair_before # NoTable
    /\ pair_before.page_id = pair_prev.page_id - 1
    /\ pair_before.cells # <<>>
    /\ pair_prev.cells # <<>>

\* Every pair returned is a table and the table scanned right after it.
PairsAreAdjacent ==
    \A k \in DOMAIN pair_pairs : pair_pairs[k][2] = pair_pairs[k][1] + 1

\* C6 (as stated): the pair (prev, current) is returned if and only if prev
\* immediately precedes current, prev.page_id = current.page_id - 1, both
\* have a cell and their column counts differ by at most
\* max_column_difference, whatever the colspans, a column count of 0 included.
C6_PairIffColumnCountsClose ==
    pair_n >= 1 =>
        /\ PairsAreAdjacent
        /\ LastPairReturned <=>
              /\ LastPairEligible
              /\ Abs(ColCount(pair_before.cells) - ColCount(pair_prev.cells))
                    <= MaxColumnDifference

\* C6 (amended): the pair (prev, current) is returned if and only if prev
\* immediately precedes current, prev.page_id = current.page_id - 1, both
\* have a cell and either one of the two column counts is 0 or the column
\* counts differ by at most max_column_difference.
C6_PairIffCountsCloseOrZero ==
    pair_n >= 1 =>
        /\ PairsAreAdjacent
        /\ LastPairReturned <=>
              /\ LastPairEligible
              /\ \/ ColCount(pair_before.cells) = 0
                 \/ ColCount(pair_prev.cells) = 0
                 \/ Abs(ColCount(pair_before.cells) - ColCount(pair_prev.cells))
                       <= MaxColumnDifference

\* Three tables on consecutive pages are paired one after the other, the
\* last two with column counts 5 and 2, max_column_difference apart.
C6_Witness ==
    /\ pair_n = 3
    /\ pair_pairs = <<<<1, 2>>, <<2, 3>>>>
    /\ ColCount(pair_before.cells) = 5
    /\ ColCount(pair_prev.cells) = 2

\* Pairs j and k of pairs have a table in common.
ShareTable(j, k) ==
    {pair_pairs[j][1], pair_pairs[j][2]} \cap {pair_pairs[k][1], pair_pairs[k][2]} # {}

\* C13 (as stated): no two pairs returned share a table, also when three or
\* more consecutive pages hold one table each.
C13_NoSharedTable ==
    \A j, k \in DOMAIN pair_pairs : j < k => ~ShareTable(j, k)

\* C13 (amended): two pairs returned share a table only when one follows the
\* other in the list and the table is the current table of the earlier pair
\* and the prev table of the later one; they share no other table.
C13_SharedTableOnlyWhenChained ==
    \A j, k \in DOMAIN pair_pairs :
        (j < k /\ ShareTable(j, k)) =>
            /\ k = j + 1
            /\ pair_pairs[j][2] = pair_pairs[k][1]
            /\ pair_pairs[j][1] # pair_pairs[k][1]
            /\ pair_pairs[j][1] # pair_pairs[k][2]
            /\ pair_pairs[j][2] # pair_pairs[k][2]

\* Pages 0, 1 and 2 hold one table each, and the table of page 1 is in both
\* pairs returned.
C13_Witness ==
    /\ pair_n = 3
    /\ Len(pair_pairs) = 2
    /\ ShareTable(1, 2)
    /\ pair_pairs[1][2] = pair_pairs[2][1]
    /\ pair_before.page_id = 1
    /\ pair_prev.page_id = 2

(***************************************************************************)
(* Claims about apply_single_correction, checked under SpecCorr.           *)
(* Correction k of corr_batch took the cells from corr_hist[k] to          *)
(* corr_hist[k + 1].                                                       *)
(***************************************************************************)
Applied == 1 .. (corr_i - 1)

\* The cell a location resolved to when correction k was applied, as
\* <<table, index>>; index 0 when it resolved to no cell.
ResolvedCell(k, loc) ==
    <<TableOf(loc),
      FindCellAtLocation(corr_hist[k][TableOf(loc)], loc.row, loc.col).cell>>

SourceCell(k) == ResolvedCell(k, corr_batch[k].source)

TargetCell(k) == ResolvedCell(k, corr_batch[k].target[1])

\* Source and target of correction k resolved to two distinct cells.
TwoCells(k) ==
    /\ corr_batch[k].target # <<>>
    /\ SourceCell(k)[2] # 0
    /\ TargetCell(k)[2] # 0
    /\ SourceCell(k) # TargetCell(k)

LinesBefore(k, cell) == corr_hist[k][cell[1]][cell[2]].text_lines

LinesAfter(k, cell) == corr_hist[k + 1][cell[1]][cell[2]].text_lines

\* C7: merge_cells between two distinct cells, S the source's lines joined by
\* a space: append puts " " and S after the last line of a target with
\* lines, prepend puts S and " " before its first line, the other lines
\* stay; replace, or a target without lines, gives the target the one line
\* S; the source has no lines afterwards.
C7_MergeCells ==
    \A k \in Applied :
        (corr_batch[k].type = "merge_cells" /\ TwoCells(k)) =>
            LET S == Join(LinesBefore(k, SourceCell(k)))
                T == LinesBefore(k, TargetCell(k))
                merged == LinesAfter(k, TargetCell(k))
                action == corr_batch[k].action
            IN /\ (action = "append" /\ T # <<>>) =>
                      /\ Len(merged) = Len(T)
                      /\ merged[Len(T)] = T[Len(T)] \o <<" ">> \o S
                      /\ \A j \in 1 .. (Len(T) - 1) : merged[j] = T[j]
               /\ (action = "prepend" /\ T # <<>>) =>
                      /\ Len(merged) = Len(T)
                      /\ merged[1] = S \o <<" ">> \o T[1]
                      /\ \A j \in 2 .. Len(T) : merged[j] = T[j]
               /\ (action = "replace" \/ T = <<>>) => merged = <<S>>
               /\ LinesAfter(k, SourceCell(k)) = <<>>

\* Source ["b a", "a"] was appended to target ["a", "b a"] of the other
\* table: the target is ["a", "b a b a a"], the source [].
C7_Witness ==
    /\ corr_i = 2
    /\ corr_batch[1].type = "merge_cells"
    /\ corr_batch[1].action = "append"
    /\ TwoCells(1)
    /\ SourceCell(1)[1] # TargetCell(1)[1]
    /\ LinesBefore(1, SourceCell(1)) = <<<<"b", " ", "a">>, <<"a">>>>
    /\ LinesBefore(1, TargetCell(1)) = <<<<"a">>, <<"b", " ", "a">>>>
    /\ LinesAfter(1, TargetCell(1)) =
          <<<<"a">>, <<"b", " ", "a", " ", "b", " ", "a", " ", "a">>>>
    /\ LinesAfter(1, SourceCell(1)) = <<>>

\* The text without the first occurrence of the fragment in it.
RECURSIVE RemoveFirst(_, _)
RemoveFirst(text, fragment) ==
    IF Len(text) < Len(fragment) THEN text
    ELSE IF SubSeq(text, 1, Len(fragment)) = fragment
         THEN SubSeq(text, Len(fragment) + 1, Len(text))
         ELSE <<Head(text)>> \o RemoveFirst(Tail(text), fragment)

\* C8: move_text_fragment between two distinct cells, the fragment in the
\* source's joined text: the source keeps that text without the FIRST
\* occurrence of the fragment, whitespace-collapsed, as one line (no line
\* when nothing is left), and the target takes the fragment per action.
C8_RemovesFirstOccurrenceOnly ==
    \A k \in Applied :
        (/\ corr_batch[k].type = "move_text_fragment"
         /\ TwoCells(k)
         /\ corr_batch[k].text_fragment # <<>>
         /\ Contains(Join(LinesBefore(k, SourceCell(k))),
                     corr_batch[k].text_fragment)) =>
            LET rest == Join(Split(RemoveFirst(Join(LinesBefore(k, SourceCell(k))),
                                               corr_batch[k].text_fragment), <<>>))
            IN /\ LinesAfter(k, SourceCell(k)) =
                     IF rest = <<>> THEN <<>> ELSE <<rest>>
               /\ LinesAfter(k, TargetCell(k)) =
                     CombineText(LinesBefore(k, TargetCell(k)),
                                 corr_batch[k].text_fragment,
                                 corr_batch[k].action)

\* C9: a merge_cells or move_cell correction with source and target
\* resolved, applied a second time right after the first, changes the text
\* lines of no cell.
C9_SecondRunIsNoOp ==
    (/\ corr_i >= 3
     /\ corr_batch[1] = corr_batch[2]
     /\ corr_batch[1].type \in {"merge_cells", "move_cell"}
     /\ corr_batch[1].target # <<>>
     /\ SourceCell(1)[2] # 0
     /\ TargetCell(1)[2] # 0) =>
        corr_hist[3] = corr_hist[2]

(***************************************************************************)
(* Claims about find_cell_at_location, checked under SpecFind.             *)
(***************************************************************************)
\* The cells of find_cells at (row, find_col).
CellsAt(row) ==
    {k \in DOMAIN find_cells :
        find_cells[k].row_id = row /\ find_cells[k].col_id = find_col}

\* C10: a negative row r resolves against the largest row_id M of the
\* collection to row M + r + 1; the call gives a cell at exactly (resolved
\* row, col) when there is one, and otherwise no cell and no exception: also
\* when the resolved row is still negative or the collection is empty.
C10_NegativeRowLookup ==
    find_pc = "done" =>
        /\ ~find_result.raised
        /\ find_cells = <<>> => find_result.cell = 0
        /\ find_cells # <<>> =>
              LET M == CHOOSE m \in {find_cells[k].row_id : k \in DOMAIN find_cells} :
                          \A k \in DOMAIN find_cells : find_cells[k].row_id <= m
                  resolved == IF find_row < 0 THEN M + find_row + 1 ELSE find_row
              IN /\ CellsAt(resolved) # {} => find_result.cell \in CellsAt(resolved)
                 /\ CellsAt(resolved) = {} => find_result.cell = 0
                 /\ resolved < 0 => find_result.cell = 0

\* Row -1 of a collection whose largest row_id is 2 gave the cell of row 2,
\* which is not the only cell of the column.
C10_Witness ==
    /\ find_pc = "done"
    /\ find_row = -1
    /\ Len(find_cells) = 3
    /\ find_result.cell = 1
    /\ find_cells[1].row_id = 2
    /\ find_cells[2].row_id = 0
    /\ find_cells[1].col_id = find_col
    /\ find_cells[2].col_id = find_col

(***************************************************************************)
(* Claims about the corrections of one pair, checked under SpecBatch.      *)
(***************************************************************************)
\* The location resolves to no cell of cells.
NoCellAt(cells, loc) ==
    FindCellAtLocation(cells[TableOf(loc)], loc.row, loc.col).cell = 0

\* The item fails on cells: it does not parse, or its source, or the target
\* or fragment its type needs, is missing or not found.
FailsOn(cells, d) ==
    \/ d.type \notin CorrectionTypes
    \/ d.action \notin ActionChoices
    \/ NoCellAt(cells, d.source)
    \/ /\ d.type \in {"merge_cells", "move_cell", "move_text_fragment"}
       /\ (d.target = <<>> \/ NoCellAt(cells, d.target[1]))
    \/ /\ d.type = "move_text_fragment"
       /\ \/ d.text_fragment = <<>>
          \/ LET source == FindCellAtLocation(cells[TableOf(d.source)],
                                              d.source.row, d.source.col).cell
             IN ~Contains(Join(cells[TableOf(d.source)][source].text_lines),
                          d.text_fragment)

\* The cells after the items k, k+1, ... of data, in that order, the items
\* that fail left out.
RECURSIVE WithoutFailing(_, _, _)
WithoutFailing(cells, data, k) ==
    IF k > Len(data) THEN cells
    ELSE IF FailsOn(cells, data[k]) THEN WithoutFailing(cells, data, k + 1)
    ELSE WithoutFailing(ApplySingleCorrection(cells, data[k]).cells, data, k + 1)

BatchDone == corr_data # <<>> /\ corr_i > Len(corr_batch)

\* C11: the corrections of a batch are applied in list order and each may
\* fail alone: an item that does not parse is not applied, an applied item
\* that fails changes the text lines of no cell, and the cells after the
\* batch are the cells the items that do not fail give, applied in order.
C11_FailingItemsAreSkipped ==
    /\ corr_data # <<>> =>
          \A k \in Applied :
              FailsOn(corr_hist[k], corr_batch[k]) => corr_hist[k + 1] = corr_hist[k]
    /\ BatchDone =>
          /\ Len(corr_hist) = Len(SelectSeq(corr_data, ParsesAsCorrection)) + 1
          /\ corr_cells = WithoutFailing(corr_hist[1], corr_data, 1)

\* An item of an unknown type, then a merge_cells that moved the text of its
\* source: the batch is done and the merge took place.
C11_Witness ==
    /\ BatchDone
    /\ Len(corr_data) = 2
    /\ corr_data[1].type = "split_cell"
    /\ corr_data[2].type = "merge_cells"
    /\ ~FailsOn(corr_hist[1], corr_data[2])
    /\ corr_hist[1][1][1].text_lines # <<>>
    /\ corr_cells[1][1].text_lines = <<>>
    /\ corr_cells # corr_hist[1]

(***************************************************************************)
(* Claims about rewrite_blocks, checked under SpecRewrite.                 *)
(***************************************************************************)
\* The last pair processed met a failure of its own: an exception of the
\* image extraction, the HTML rendering or the oracle, or a response that is
\* empty, lacks the corrections key or holds a corrections value that is no
\* list.
LastPairFailed ==
    /\ rw_last # <<>>
    /\ \/ rw_last[1].raises # ""
       \/ rw_last[1].response # "dict"
       \/ ~rw_last[1].has_corrections
       \/ rw_last[1].corrections.kind # "list"

\* C12: a failure local to one pair never aborts the batch: no exception
\* leaves rewrite_blocks, the cells of the pair are left unchanged, and the
\* loop goes on to the later pairs.
C12_PairFailureIsIsolated ==
    /\ ~rw_raised
    /\ LastPairFailed => rw_tables = rw_before

====
